---- MODULE Spec2Model ----
(***************************************************************************)
(* A model of etl_pipeline.py: extract_data, transform_data, load_data and *)
(* the orchestrator main.                                                  *)
(*                                                                         *)
(* A DataFrame is a sequence of rows.  A cell of the raw frame is <<>>     *)
(* when it is missing (an empty CSV field, NaN after read_csv) and <<v>>   *)
(* when it holds v.  Amounts are counted in cents.                         *)
(***************************************************************************)
EXTENDS Integers, Sequences, FiniteSets

VARIABLES
    csv,           \* the file CSV_FILE: missing, malformed, or its rows
    pc,            \* position of the running call
    sales_df,      \* main: what extract_data returned
    analytics_df,  \* main: what transform_data returned
    dropped,       \* the two counts transform_data prints (lines 46, 49)
    df,            \* load_data: the frame being loaded
    table,         \* the table TABLE_NAME of DB_FILE, as committed
    conn,          \* load_data: the sqlite3 connection
    tableBefore,   \* the table when the running load_data was entered
    loadError,     \* load_data: the except branch of line 88 was taken
    log,           \* which of the outcome messages have been printed
    lastLoad,      \* the last load_data call, if it succeeded
    prevLoad       \* the load_data call before the last, if it succeeded

vars == <<csv, pc, sales_df, analytics_df, dropped, df, table, conn,
          tableBefore, loadError, log, lastLoad, prevLoad>>

\* Longest CSV file, in rows, that Init enumerates.
MaxLen == 2

-----------------------------------------------------------------------------
(* Values *)

NaN == <<>>
Cell(v) == <<v>>

\* Product ids in ascending order (groupby sorts its keys).
ProductIds == <<"P101", "P102", "P103", "P104", "P105">>

Columns == {"transaction_id", "product_id", "date", "amount", "category"}

ValidDates == {"2024-09-01", "2024-09-02", "2024-09-03", "2024-09-04", "2024-09-05"}

\* The cells the enumerated input files are built from.
InputProducts == {"P101", "P102"}
InputAmounts == {NaN, Cell(-1), Cell(0), Cell(1), Cell(2)}
InputDates == {Cell("2024-09-01"), Cell("not-a-date")}
InputCategories == {NaN, Cell("Gadget")}

RawRow(i, p, d, a, c) ==
    [transaction_id |-> Cell(i), product_id |-> Cell(p), date |-> d,
     amount |-> a, category |-> c]

None == [ok |-> FALSE]
Frame(rows) == [ok |-> TRUE, rows |-> rows]

MissingFile == [state |-> "missing"]
MalformedFile == [state |-> "malformed"]
File(rows) == [state |-> "ok", rows |-> rows]

NoTable == [exists |-> FALSE]
Table(rows) == [exists |-> TRUE, rows |-> rows]

NoLoad == [done |-> FALSE]

Range(s) == {s[i] : i \in 1..Len(s)}

-----------------------------------------------------------------------------
(* generate_mock_data *)

MockData ==
    << RawRow(1,  "P101", Cell("2024-09-01"), Cell(1550),  Cell("Gadget")),
       RawRow(2,  "P102", Cell("2024-09-01"), Cell(2000),  Cell("Food")),
       RawRow(3,  "P101", Cell("2024-09-02"), Cell(1550),  Cell("Gadget")),
       RawRow(4,  "P103", Cell("2024-09-02"), Cell(5099),  Cell("Service")),
       RawRow(5,  "P102", Cell("2024-09-03"), Cell(2000),  Cell("Food")),
       RawRow(6,  "P104", Cell("2024-09-03"), Cell(-1000), Cell("Refund")),
       RawRow(7,  "P101", Cell("2024-09-04"), NaN,         Cell("Gadget")),
       RawRow(8,  "P103", Cell("2024-09-04"), Cell(5099),  Cell("Service")),
       RawRow(9,  "P105", Cell("2024-09-05"), Cell(500),   Cell("Book")),
       RawRow(10, "P102", Cell("2024-09-05"), Cell(2000),  Cell("Food")) >>

-----------------------------------------------------------------------------
(* extract_data *)

\* pd.read_csv returns the rows in file order; FileNotFoundError and every
\* other exception are caught and the function returns None.
\* A variant that hands back an empty frame where the code returns None.
extract_data_empty(file) ==
    IF file.state = "missing" THEN [result |-> Frame(<<>>), printed |-> {"not_found"}]
    ELSE IF file.state = "malformed" THEN [result |-> Frame(<<>>), printed |-> {"extract_error"}]
    ELSE [result |-> Frame(file.rows), printed |-> {}]

extract_data(file) ==
    IF file.state = "missing" THEN [result |-> None, printed |-> {"not_found"}]
    ELSE IF file.state = "malformed" THEN [result |-> None, printed |-> {"extract_error"}]
    ELSE [result |-> Frame(file.rows), printed |-> {}]

-----------------------------------------------------------------------------
(* transform_data *)

\* A variant: df.dropna(subset=['amount']).
dropna_amount(rows) == SelectSeq(rows, LAMBDA r : r.amount # NaN)

\* df.dropna(): a row is dropped when any of its cells is missing.
dropna(rows) == SelectSeq(rows, LAMBDA r : \A c \in Columns : r[c] # NaN)

\* A variant: df_cleaned['amount'] >= 0.
nonnegative(rows) == SelectSeq(rows, LAMBDA r : r.amount[1] >= 0)

\* df_cleaned[df_cleaned['amount'] > 0]
positive(rows) == SelectSeq(rows, LAMBDA r : r.amount[1] > 0)

\* pd.to_datetime raises on a date it cannot parse.
to_datetime_raises(rows) == \E i \in 1..Len(rows) : rows[i].date[1] \notin ValidDates

RECURSIVE sum(_)
sum(amounts) ==
    IF amounts = <<>> THEN 0 ELSE amounts[1] + sum(Tail(amounts))

\* A variant: the group after a drop_duplicates on (product_id, amount).
group_dedup(rows, p) ==
    LET members == SelectSeq(rows, LAMBDA r : r.product_id[1] = p)
        amounts == [i \in 1..Len(members) |-> members[i].amount[1]]
        firsts == {i \in 1..Len(amounts) : \A j \in 1..(i - 1) : amounts[j] # amounts[i]}
        F[i \in 0..Len(amounts)] ==
            IF i = 0 THEN <<>>
            ELSE IF i \in firsts THEN Append(F[i - 1], amounts[i]) ELSE F[i - 1]
    IN  F[Len(amounts)]

\* The amounts of one group, in row order.
group(rows, p) ==
    LET members == SelectSeq(rows, LAMBDA r : r.product_id[1] = p)
    IN  [i \in 1..Len(members) |-> members[i].amount[1]]

\* groupby('product_id')['amount'].sum().reset_index().rename(...): one row
\* per key that occurs, keys ascending.
groupby_sum(rows) ==
    LET keys == SelectSeq(ProductIds,
                          LAMBDA p : \E i \in 1..Len(rows) : rows[i].product_id[1] = p)
    IN  [k \in 1..Len(keys) |->
            [product_id |-> keys[k], total_revenue_usd |-> sum(group(rows, keys[k]))]]

\* df_aggregated['processed_at'] = datetime.now()
stamp(rows, now) ==
    [k \in 1..Len(rows) |->
        [product_id |-> rows[k].product_id,
         total_revenue_usd |-> rows[k].total_revenue_usd,
         processed_at |-> now]]

\* Lines 45 and 48: the rows that reach the aggregation.
df_filtered(rows) == positive(dropna(rows))

\* A variant that converts the dates before the sign filter (line 52 moved
\* above line 48).
transform_data_early(rows, now) ==
    LET df_cleaned == dropna(rows)
        filtered == positive(df_cleaned)
        counts == <<Len(rows) - Len(df_cleaned), Len(df_cleaned) - Len(filtered)>>
    IN  IF to_datetime_raises(df_cleaned)
        THEN [raised |-> TRUE, dropped |-> <<counts[1], 0>>, result |-> None]
        ELSE [raised |-> FALSE, dropped |-> counts,
              result |-> Frame(stamp(groupby_sum(filtered), now))]

\* The whole function: what it printed about the drops, whether it raised,
\* and the frame it returned when it did not.
transform_data(rows, now) ==
    LET df_cleaned == dropna(rows)
        filtered == df_filtered(rows)
        counts == <<Len(rows) - Len(df_cleaned), Len(df_cleaned) - Len(filtered)>>
    IN  IF to_datetime_raises(filtered)
        THEN [raised |-> TRUE, dropped |-> counts, result |-> None]
        ELSE [raised |-> FALSE, dropped |-> counts,
              result |-> Frame(stamp(groupby_sum(filtered), now))]

-----------------------------------------------------------------------------
(* load_data *)

\* A row as sqlite stores it: the datetime of processed_at is written as text.
sql_rows(rows) ==
    [k \in 1..Len(rows) |->
        [product_id |-> rows[k].product_id,
         total_revenue_usd |-> rows[k].total_revenue_usd,
         processed_at |-> <<"text", rows[k].processed_at>>]]

\* A variant: if_exists='append'.
to_sql_append(old, rows) ==
    Table((IF old.exists THEN old.rows ELSE <<>>) \o sql_rows(rows))

\* A variant: the new rows replace those of the same product_id, the others stay.
to_sql_merge(old, rows) ==
    LET kept == IF old.exists
                THEN SelectSeq(old.rows,
                               LAMBDA o : \A k \in 1..Len(rows) :
                                              rows[k].product_id # o.product_id)
                ELSE <<>>
    IN  Table(sql_rows(rows) \o kept)

\* df.to_sql(table_name, conn, if_exists='replace', index=False) when it
\* succeeds: an existing table is dropped, the table is created anew and the
\* rows of the frame are inserted and committed.
to_sql(old, rows) == Table(sql_rows(rows))

\* What the table can be when to_sql raises.  DROP TABLE and CREATE TABLE
\* are committed as they run; the INSERTs are one transaction that is rolled
\* back.  So the failure leaves the table as it was (nothing was run yet),
\* dropped (an existing table, CREATE failed) or created empty (INSERT failed).
to_sql_failed(old) ==
    {old, Table(<<>>)} \cup (IF old.exists THEN {NoTable} ELSE {})

\* Bookkeeping of the calls, for the properties that relate two calls.
Returned(ok, frame, tbl) ==
    /\ prevLoad' = lastLoad
    /\ lastLoad' = IF ok THEN [done |-> TRUE, df |-> frame, table |-> tbl] ELSE NoLoad

\* Lines 70-73, and 88-89 when sqlite3.connect raises.
LoadConnect(from, ret, summary) ==
    /\ pc = from
    /\ df' = summary
    /\ tableBefore' = table
    /\ \/ /\ conn' = "open"
          /\ loadError' = FALSE
          /\ log' = log \cup {"load"}
          /\ pc' = "l_write"
          /\ UNCHANGED <<lastLoad, prevLoad>>
       \/ /\ conn' = "none"
          /\ loadError' = TRUE
          /\ log' = log \cup {"load", "load_error"}
          /\ pc' = ret
          /\ Returned(FALSE, df, table)
    /\ UNCHANGED <<csv, sales_df, analytics_df, dropped, table>>

\* Lines 76-77, and 88-89 when to_sql raises.
LoadWrite(ret) ==
    /\ pc = "l_write"
    /\ \/ /\ table' = to_sql(table, df.rows)
          /\ pc' = "l_verify"
          /\ UNCHANGED <<loadError, log, lastLoad, prevLoad>>
       \/ /\ table' \in to_sql_failed(table)
          /\ loadError' = TRUE
          /\ log' = log \cup {"load_error"}
          /\ pc' = ret
          /\ Returned(FALSE, df, table')
    /\ UNCHANGED <<csv, sales_df, analytics_df, dropped, df, conn, tableBefore>>

\* Lines 79-86, and 88-89 when the verification query raises.
LoadVerify(ret) ==
    /\ pc = "l_verify"
    /\ \/ /\ conn' = "closed"
          /\ Returned(TRUE, df, table)
          /\ UNCHANGED <<loadError, log>>
       \/ /\ conn' = conn
          /\ loadError' = TRUE
          /\ log' = log \cup {"load_error"}
          /\ Returned(FALSE, df, table)
    /\ pc' = ret
    /\ UNCHANGED <<csv, sales_df, analytics_df, dropped, df, table, tableBefore>>

-----------------------------------------------------------------------------
(* main *)

\* The values datetime.now() is drawn from.
Times == {1, 2}

\* Lines 95-96.
MainStart ==
    /\ pc = "m_start"
    /\ csv' = IF csv.state = "missing" THEN File(MockData) ELSE csv
    /\ pc' = "m_extract"
    /\ UNCHANGED <<sales_df, analytics_df, dropped, df, table, conn,
                   tableBefore, loadError, log, lastLoad, prevLoad>>

\* Lines 100-102.
MainExtract ==
    /\ pc = "m_extract"
    /\ LET r == extract_data(csv)
       IN  /\ sales_df' = r.result
           /\ log' = log \cup {"extract"} \cup r.printed
           /\ pc' = IF r.result.ok THEN "m_transform" ELSE "m_done"
    /\ UNCHANGED <<csv, analytics_df, dropped, df, table, conn,
                   tableBefore, loadError, lastLoad, prevLoad>>

\* Line 105, and 111-112 when transform_data raises.
MainTransform ==
    /\ pc = "m_transform"
    /\ \E now \in Times :
          LET r == transform_data(sales_df.rows, now)
          IN  /\ dropped' = r.dropped
              /\ analytics_df' = r.result
              /\ log' = log \cup {"transform"} \cup (IF r.raised THEN {"fatal"} ELSE {})
              /\ pc' = IF r.raised THEN "m_done" ELSE "m_load"
    /\ UNCHANGED <<csv, sales_df, df, table, conn, tableBefore, loadError,
                   lastLoad, prevLoad>>

\* Line 109.
MainComplete ==
    /\ pc = "m_loaded"
    /\ log' = log \cup {"complete"}
    /\ pc' = "m_done"
    /\ UNCHANGED <<csv, sales_df, analytics_df, dropped, df, table, conn,
                   tableBefore, loadError, lastLoad, prevLoad>>

-----------------------------------------------------------------------------
(* Initial states *)

\* The cells of one input row.
InputCells ==
    [p : InputProducts, d : InputDates, a : InputAmounts, c : InputCategories]

\* file is missing, malformed, or holds at most MaxLen rows over the input cells.
InputFile(file) ==
    \/ file = MissingFile
    \/ file = MalformedFile
    \/ \E n \in 0..MaxLen : \E f \in [1..n -> InputCells] :
          file = File([i \in 1..n |-> RawRow(i, f[i].p, f[i].d, f[i].a, f[i].c)])

\* Rows an earlier run left in the table.
StaleRows ==
    << [product_id |-> "P101", total_revenue_usd |-> 999, processed_at |-> <<"text", 0>>],
       [product_id |-> "P104", total_revenue_usd |-> 5, processed_at |-> <<"text", 0>>] >>

\* The table before a run: never created, created empty, or holding the
\* rows of an earlier run.
PriorTables == {NoTable, Table(<<>>), Table(StaleRows)}

InitCommon ==
    /\ sales_df = None
    /\ analytics_df = None
    /\ dropped = <<0, 0>>
    /\ df = None
    /\ conn = "none"
    /\ tableBefore = table
    /\ loadError = FALSE
    /\ log = {}
    /\ lastLoad = NoLoad
    /\ prevLoad = NoLoad

\* One run of main.
Init ==
    /\ InputFile(csv)
    /\ table \in PriorTables
    /\ pc = "m_start"
    /\ InitCommon

Next ==
    \/ MainStart
    \/ MainExtract
    \/ MainTransform
    \/ LoadConnect("m_load", "m_loaded", analytics_df)
    \/ LoadWrite("m_loaded")
    \/ LoadVerify("m_loaded")
    \/ MainComplete

Spec == Init /\ [][Next]_vars

\* extract_data called on any file.
InitExtract ==
    /\ InputFile(csv) \/ csv = File(MockData)
    /\ table = NoTable
    /\ pc = "x_call"
    /\ InitCommon

ExtractCall ==
    /\ pc = "x_call"
    /\ LET r == extract_data(csv)
       IN  /\ sales_df' = r.result
           /\ log' = log \cup {"extract"} \cup r.printed
    /\ pc' = "x_returned"
    /\ UNCHANGED <<csv, analytics_df, dropped, df, table, conn,
                   tableBefore, loadError, lastLoad, prevLoad>>

NextExtract == ExtractCall

SpecExtract == InitExtract /\ [][NextExtract]_vars

\* load_data called again and again on a table that holds the rows of an
\* earlier run; failed calls leave it dropped or empty for the later ones.
SampleRows ==
    { <<>>,
      << RawRow(1, "P101", Cell("2024-09-01"), Cell(1), Cell("Gadget")) >>,
      << RawRow(1, "P101", Cell("2024-09-01"), Cell(2), Cell("Gadget")),
         RawRow(2, "P102", Cell("2024-09-02"), Cell(1), Cell("Food")) >>,
      MockData }

LoadInputs == { transform_data(rows, now).result : rows \in SampleRows, now \in Times }

InitLoad ==
    /\ csv = MissingFile
    /\ table = Table(StaleRows)
    /\ pc = "l_idle"
    /\ InitCommon

NextLoad ==
    \/ \E summary \in LoadInputs : LoadConnect("l_idle", "l_idle", summary)
    \/ LoadWrite("l_idle")
    \/ LoadVerify("l_idle")

SpecLoad == InitLoad /\ [][NextLoad]_vars

-----------------------------------------------------------------------------
(* Properties of transform_data, stated on the frame main passed to it *)

\* Row r has no missing cell and a strictly positive amount.
Kept(r) == (\A c \in Columns : r[c] # NaN) /\ r.amount[1] > 0

\* Row r has an amount, and it is strictly positive.
AmountPositive(r) == r.amount # NaN /\ r.amount[1] > 0

KeptIdx(rows) == {i \in 1..Len(rows) : Kept(rows[i])}

KeptOf(rows, p) == {i \in KeptIdx(rows) : rows[i].product_id[1] = p}

RECURSIVE AmountOver(_, _)
AmountOver(S, rows) ==
    IF S = {} THEN 0
    ELSE LET i == CHOOSE j \in S : TRUE
         IN  rows[i].amount[1] + AmountOver(S \ {i}, rows)

\* The output rows of product p.
OutputOf(p) == {k \in 1..Len(analytics_df.rows) : analytics_df.rows[k].product_id = p}

OutputProducts == {analytics_df.rows[k].product_id : k \in 1..Len(analytics_df.rows)}

\* C1: every product with a record that survives the filters has an output
\* row whose total_revenue_usd is the sum of the amounts of exactly its
\* surviving records.
C1_AggregationCorrect ==
    analytics_df.ok =>
        \A p \in Range(ProductIds) :
            KeptOf(sales_df.rows, p) # {} =>
                /\ OutputOf(p) # {}
                /\ \A k \in OutputOf(p) :
                       analytics_df.rows[k].total_revenue_usd
                           = AmountOver(KeptOf(sales_df.rows, p), sales_df.rows)

\* A product with two surviving records of the same amount and a dropped one.
C1_Witness ==
    /\ analytics_df.ok
    /\ \E p \in Range(ProductIds) :
          /\ \E i, j \in KeptOf(sales_df.rows, p) :
                 i # j /\ sales_df.rows[i].amount = sales_df.rows[j].amount
          /\ \E i \in 1..Len(sales_df.rows) :
                 sales_df.rows[i].product_id[1] = p /\ ~Kept(sales_df.rows[i])

\* C2 as stated: a record contributes exactly when its amount is present and
\* positive (a positive amount beside a missing category is kept), and the
\* survivors number the input minus the null amounts minus the amounts <= 0.
C2_AmountOnlyFilter ==
    "transform" \in log =>
        LET rows == sales_df.rows
            nulls == {i \in 1..Len(rows) : rows[i].amount = NaN}
            nonpos == {i \in 1..Len(rows) : rows[i].amount # NaN /\ rows[i].amount[1] <= 0}
        IN  /\ Range(df_filtered(rows)) = {rows[i] : i \in {j \in 1..Len(rows) : AmountPositive(rows[j])}}
            /\ Len(rows) - dropped[1] - dropped[2]
                   = Len(rows) - Cardinality(nulls) - Cardinality(nonpos)

\* C2 amended: a record contributes exactly when none of its fields is
\* missing and its amount is positive; the null filter drops the records
\* with any missing field; the survivors number the input minus those
\* records minus the complete records with an amount <= 0.
C2_AnyFieldFilter ==
    "transform" \in log =>
        LET rows == sales_df.rows
            incomplete == {i \in 1..Len(rows) : \E c \in Columns : rows[i][c] = NaN}
            nonpos == {i \in 1..Len(rows) : i \notin incomplete /\ rows[i].amount[1] <= 0}
        IN  /\ Range(df_filtered(rows)) = {rows[i] : i \in KeptIdx(rows)}
            /\ Len(df_filtered(rows)) = Cardinality(KeptIdx(rows))
            /\ dropped[1] = Cardinality(incomplete)
            /\ dropped[2] = Cardinality(nonpos)
            /\ Len(rows) - dropped[1] - dropped[2] = Cardinality(KeptIdx(rows))

\* A positive amount dropped for its missing category, beside a complete
\* record dropped for its amount.
C2_Witness ==
    /\ "transform" \in log
    /\ \E i, j \in 1..Len(sales_df.rows) :
          /\ AmountPositive(sales_df.rows[i])
          /\ sales_df.rows[i].category = NaN
          /\ sales_df.rows[j].category # NaN
          /\ sales_df.rows[j].amount # NaN
          /\ sales_df.rows[j].amount[1] <= 0

\* C3 as stated: the product ids of the output are those of the records with
\* a present, positive amount, each in exactly one row.
C3_ProductsOfPositiveAmounts ==
    analytics_df.ok =>
        /\ OutputProducts
               = {sales_df.rows[i].product_id[1] :
                      i \in {j \in 1..Len(sales_df.rows) : AmountPositive(sales_df.rows[j])}}
        /\ \A p \in OutputProducts : Cardinality(OutputOf(p)) = 1

\* C3 amended: the product ids of the output are those of the records with
\* no missing field and a positive amount, each in exactly one row.
C3_ProductsOfKeptRows ==
    analytics_df.ok =>
        /\ OutputProducts = {sales_df.rows[i].product_id[1] : i \in KeptIdx(sales_df.rows)}
        /\ \A p \in OutputProducts : Cardinality(OutputOf(p)) = 1

\* A product in the output beside one that is absent although it has a
\* record with a positive amount.
C3_Witness ==
    /\ analytics_df.ok
    /\ OutputProducts # {}
    /\ \E i \in 1..Len(sales_df.rows) :
          /\ AmountPositive(sales_df.rows[i])
          /\ sales_df.rows[i].product_id[1] \notin OutputProducts

\* Every record of the frame has a missing or non-positive amount.
NothingQualifies(rows) ==
    \A i \in 1..Len(rows) : rows[i].amount = NaN \/ rows[i].amount[1] <= 0

\* C4: when no record has a present, positive amount, transform_data returns
\* an empty summary without raising, and main goes on to load_data with it.
C4_EmptySummary ==
    ("transform" \in log /\ NothingQualifies(sales_df.rows)) =>
        /\ "fatal" \notin log
        /\ analytics_df = Frame(<<>>)
        /\ pc = "m_load" \/ "load" \in log
        /\ "load" \in log => df = Frame(<<>>)

\* load_data was entered with the empty summary of a frame whose records
\* were all dropped, one of them with a date that does not parse.
C4_Witness ==
    /\ "load" \in log
    /\ df = Frame(<<>>)
    /\ NothingQualifies(sales_df.rows)
    /\ \E i \in 1..Len(sales_df.rows) : sales_df.rows[i].date[1] \notin ValidDates

\* C7 as stated: a failed extraction runs neither transform nor load, a
\* failed transform does not run load, and no run with a failed stage is
\* reported complete.
C7_FailureIsTerminal ==
    LET extractFailed == "not_found" \in log \/ "extract_error" \in log
        transformFailed == "fatal" \in log
        loadFailed == "load_error" \in log
    IN  /\ extractFailed => "transform" \notin log /\ "load" \notin log
        /\ transformFailed => "load" \notin log
        /\ (extractFailed \/ transformFailed \/ loadFailed) => "complete" \notin log

-----------------------------------------------------------------------------
(* Properties of extract_data *)

\* What the caller receives for a file in the given failing state.
FailureOutcome(state) == extract_data([state |-> state]).result

\* C9 as stated: a missing path and any other failure reach the caller as
\* two distinct error outcomes, and a success returns the rows in file order.
C9_DistinctErrors ==
    pc = "x_returned" =>
        /\ csv.state = "ok" => sales_df = Frame(csv.rows)
        /\ csv.state = "missing" => ~sales_df.ok /\ sales_df # FailureOutcome("malformed")
        /\ csv.state = "malformed" => ~sales_df.ok /\ sales_df # FailureOutcome("missing")

\* C9 amended: both failures reach the caller as the same outcome, None, and
\* differ only in the message printed; a success returns the rows in file
\* order.
C9_NoneOnFailure ==
    pc = "x_returned" =>
        /\ csv.state = "ok" => sales_df = Frame(csv.rows)
        /\ csv.state = "missing" =>
               sales_df = None /\ "not_found" \in log /\ "extract_error" \notin log
        /\ csv.state = "malformed" =>
               sales_df = None /\ "extract_error" \in log /\ "not_found" \notin log

\* extract_data has returned from a path that does not exist.
C9_Witness == pc = "x_returned" /\ csv.state = "missing" /\ ~sales_df.ok

-----------------------------------------------------------------------------
(* Properties of load_data *)

\* C5: after a successful load_data the rows of the table are exactly the
\* rows of the summary, whatever the table held before.
C5_FullReplace ==
    (pc = "l_idle" /\ lastLoad.done) =>
        /\ table.exists
        /\ Len(table.rows) = Len(df.rows)
        /\ \A k \in 1..Len(table.rows) :
               /\ table.rows[k].product_id = df.rows[k].product_id
               /\ table.rows[k].total_revenue_usd = df.rows[k].total_revenue_usd
               /\ table.rows[k].processed_at = <<"text", df.rows[k].processed_at>>

\* A successful load, after an earlier successful one, over a table that
\* held other rows.
C5_Witness ==
    /\ pc = "l_idle"
    /\ lastLoad.done
    /\ prevLoad.done
    /\ tableBefore.exists
    /\ tableBefore.rows # <<>>
    /\ tableBefore # table

\* C6: loading the same summary twice in succession leaves the table as it
\* was after the first load.
C6_Idempotent ==
    (pc = "l_idle" /\ lastLoad.done /\ prevLoad.done /\ lastLoad.df = prevLoad.df) =>
        /\ table = prevLoad.table
        /\ Len(table.rows) = Len(df.rows)

\* The same non-empty summary was loaded twice in succession.
C6_Witness ==
    /\ pc = "l_idle"
    /\ lastLoad.done
    /\ prevLoad.done
    /\ lastLoad.df = prevLoad.df
    /\ df.rows # <<>>

\* C8 as stated: a load_data that failed leaves the table as it was when the
\* call was entered.
C8_FailedLoadKeepsTable ==
    (pc = "l_idle" /\ loadError) => table = tableBefore

\* C10 as stated: no return from load_data leaves the connection open.
C10_ConnectionClosed ==
    pc = "l_idle" => conn # "open"

====
